---- MODULE Spec2Model ----
(***************************************************************************)
(* Model of torch/_higher_order_ops/triton_kernel_wrap.py:                 *)
(*   - KernelSideTable (the kernel registry), run by concurrent threads;   *)
(*   - MutationTracker / filter_non_mutated (the mutation analyzer);       *)
(*   - the triton_kernel_wrapper_{mutation,functional} operator handlers.  *)
(* Each part has its own specification over the module's variables.        *)
(***************************************************************************)
EXTENDS Integers, Sequences, FiniteSets, TLC

\* ---------------------------------------------------------------- bounds
NumThreads == 2
NumKernels == 2
MaxCalls == 3
\* size of the kernels analysed: statements + calls + conditional expressions
\* + names used as values or arguments (a conditional's two branches are
\* plain names and are not counted)
MaxNodes == 5
\* number of buffers (storages) that exist when an operator is called
NumBuffers == 2
\* how many times in a row the abstract-mode handler is called
MaxRepeat == 2

Threads == 1..NumThreads
KernelPool == 1..NumKernels      \* opaque kernel identities (hashable objects)
Handles == 0..NumKernels         \* handles a caller may present to get_kernel
NoThread == 0
NoKernel == 0
NoIdx == -1

VARIABLES
    id_to_kernel,   \* KernelSideTable.id_to_kernel : dict int -> kernel
    kernel_to_id,   \* KernelSideTable.kernel_to_id : dict kernel -> int
    lock,           \* KernelSideTable.lock : the thread holding it, or NoThread
    pc,             \* per thread: position inside add_kernel
    kernel,         \* per thread: add_kernel's argument
    idx,            \* per thread: add_kernel's local idx
    calls,          \* number of add_kernel and reset_table calls started so far, over all threads
    returned,       \* history: <<thread, kernel, handle>> of every add_kernel return
    got,            \* the last get_kernel call: [idx, raised, value]
    resets,         \* number of reset_table calls started so far
    raced,          \* history: a reset_table call overlapped another call's add_kernel or reset_table
    issued          \* history: <<resets so far, kernel, handle>> of every add_kernel return

regVars == <<id_to_kernel, kernel_to_id, lock, pc, kernel, idx, calls, returned, got,
             resets, raced, issued>>

VARIABLES
    ast,            \* the syntax tree kernel.parse() returns
    tensors,        \* filter_non_mutated's argument: the list of names to track
    apc,            \* position of the filter_non_mutated call: parsed / returned / raised
    infos,          \* the tracker's infos when the pass ended
    mutated_names   \* the list filter_non_mutated returned

anaVars == <<ast, tensors, apc, infos, mutated_names>>

VARIABLES
    heap,             \* storage -> data: the contents of every buffer
    heap0,            \* history: heap when the operator was called
    kwargs,           \* the caller's argument bundle: name -> value
    unwrapped_kwargs, \* the bridge's local: the bundle with wrappers stripped
    launched,         \* history: the kernel launches made, in order
    wrappers,         \* functionalization: name -> the wrapper tracking that argument
    mode,             \* which handler the call is dispatched to
    kernel_idx,       \* the operator's kernel_idx argument
    grid,             \* the operator's grid argument
    tensors_to_clone, \* the names to clone (the functional form's argument)
    outputs,          \* the mapping the functional form returned
    pos,              \* the bridge's position in unwrapped_outputs.items()
    opc,              \* position of the call
    err,              \* the exception leaving the call, if any
    events,           \* history: <<operation, argument>> of the steps taken, in order
    enable_tracing,   \* the proxy mode's enable_tracing flag
    graph             \* the nodes the tracer has created

opVars == <<heap, heap0, kwargs, unwrapped_kwargs, launched, wrappers, mode,
            kernel_idx, grid, tensors_to_clone, outputs, pos, opc, err,
            events, enable_tracing, graph>>

\* everything but the registry, but the analysis, but the operator call
notRegVars == <<anaVars, opVars>>
notAnaVars == <<regVars, opVars>>
notOpVars == <<regVars, anaVars>>

vars == <<regVars, anaVars, opVars>>

\* ------------------------------------------------------- Python dict helpers
EmptyDict == <<>>

DictLen(d) == Cardinality(DOMAIN d)

DictSet(d, k, v) == [x \in (DOMAIN d) \cup {k} |-> IF x = k THEN v ELSE d[x]]

\* ---------------------------------------------------------- KernelSideTable
RegInit ==
    /\ id_to_kernel = EmptyDict
    /\ kernel_to_id = EmptyDict
    /\ lock = NoThread
    /\ pc = [t \in Threads |-> "idle"]
    /\ kernel = [t \in Threads |-> NoKernel]
    /\ idx = [t \in Threads |-> NoIdx]
    /\ calls = 0
    /\ returned = {}
    /\ got = [idx |-> NoIdx, raised |-> FALSE, value |-> NoKernel]
    /\ resets = 0
    /\ raced = FALSE
    /\ issued = {}

\* a worker thread calls add_kernel(k)
CallAddKernel(t, k) ==
    /\ pc[t] = "idle"
    /\ calls < MaxCalls
    /\ pc' = [pc EXCEPT ![t] = "acquire"]
    /\ kernel' = [kernel EXCEPT ![t] = k]
    /\ calls' = calls + 1
    /\ raced' = (raced \/ \E u \in Threads \ {t} : pc[u] = "reset_kernel_to_id")
    /\ UNCHANGED <<id_to_kernel, kernel_to_id, lock, idx, returned, got>>
    /\ UNCHANGED <<resets, issued>>
    /\ UNCHANGED notRegVars

\* mutant of Acquire: add_kernel entered without waiting for the lock
AcquireWithoutWaiting(t) ==
    /\ pc[t] = "acquire"
    /\ lock' = t
    /\ pc' = [pc EXCEPT ![t] = "check"]
    /\ UNCHANGED <<id_to_kernel, kernel_to_id, kernel, idx, calls, returned, got>>
    /\ UNCHANGED <<resets, raced, issued>>
    /\ UNCHANGED notRegVars

\* with self.lock:
Acquire(t) ==
    /\ pc[t] = "acquire"
    /\ lock = NoThread
    /\ lock' = t
    /\ pc' = [pc EXCEPT ![t] = "check"]
    /\ UNCHANGED <<id_to_kernel, kernel_to_id, kernel, idx, calls, returned, got>>
    /\ UNCHANGED <<resets, raced, issued>>
    /\ UNCHANGED notRegVars

\* mutant of CheckRegistered: the membership test is dropped, every call allocates
CheckRegisteredNeverFound(t) ==
    /\ pc[t] = "check"
    /\ pc' = [pc EXCEPT ![t] = "alloc"]
    /\ UNCHANGED <<id_to_kernel, kernel_to_id, lock, kernel, idx, calls, returned, got>>
    /\ UNCHANGED <<resets, raced, issued>>
    /\ UNCHANGED notRegVars

\* if kernel in self.kernel_to_id: return self.kernel_to_id[kernel]
\* (the return leaves the with block, which releases the lock)
CheckRegistered(t) ==
    /\ pc[t] = "check"
    /\ IF kernel[t] \in DOMAIN kernel_to_id
       THEN /\ returned' = returned \cup {<<t, kernel[t], kernel_to_id[kernel[t]]>>}
            /\ issued' = issued \cup {<<resets, kernel[t], kernel_to_id[kernel[t]]>>}
            /\ lock' = NoThread
            /\ pc' = [pc EXCEPT ![t] = "idle"]
       ELSE /\ pc' = [pc EXCEPT ![t] = "alloc"]
            /\ UNCHANGED <<lock, returned, issued>>
    /\ UNCHANGED <<id_to_kernel, kernel_to_id, kernel, idx, calls, got>>
    /\ UNCHANGED <<resets, raced>>
    /\ UNCHANGED notRegVars

\* idx = len(self.id_to_kernel)
AllocIdx(t) ==
    /\ pc[t] = "alloc"
    /\ idx' = [idx EXCEPT ![t] = DictLen(id_to_kernel)]
    /\ pc' = [pc EXCEPT ![t] = "put_id"]
    /\ UNCHANGED <<id_to_kernel, kernel_to_id, lock, kernel, calls, returned, got>>
    /\ UNCHANGED <<resets, raced, issued>>
    /\ UNCHANGED notRegVars

\* self.id_to_kernel[idx] = kernel
PutIdToKernel(t) ==
    /\ pc[t] = "put_id"
    /\ id_to_kernel' = DictSet(id_to_kernel, idx[t], kernel[t])
    /\ pc' = [pc EXCEPT ![t] = "put_kernel"]
    /\ UNCHANGED <<kernel_to_id, lock, kernel, idx, calls, returned, got>>
    /\ UNCHANGED <<resets, raced, issued>>
    /\ UNCHANGED notRegVars

\* mutant of PutKernelToId: the handle is recomputed after the first insertion
PutKernelToIdRecomputed(t) ==
    /\ pc[t] = "put_kernel"
    /\ kernel_to_id' = DictSet(kernel_to_id, kernel[t], DictLen(id_to_kernel))
    /\ pc' = [pc EXCEPT ![t] = "return"]
    /\ UNCHANGED <<id_to_kernel, lock, kernel, idx, calls, returned, got>>
    /\ UNCHANGED <<resets, raced, issued>>
    /\ UNCHANGED notRegVars

\* self.kernel_to_id[kernel] = idx
PutKernelToId(t) ==
    /\ pc[t] = "put_kernel"
    /\ kernel_to_id' = DictSet(kernel_to_id, kernel[t], idx[t])
    /\ pc' = [pc EXCEPT ![t] = "return"]
    /\ UNCHANGED <<id_to_kernel, lock, kernel, idx, calls, returned, got>>
    /\ UNCHANGED <<resets, raced, issued>>
    /\ UNCHANGED notRegVars

\* return idx (leaving the with block releases the lock)
ReturnIdx(t) ==
    /\ pc[t] = "return"
    /\ returned' = returned \cup {<<t, kernel[t], idx[t]>>}
    /\ issued' = issued \cup {<<resets, kernel[t], idx[t]>>}
    /\ lock' = NoThread
    /\ pc' = [pc EXCEPT ![t] = "idle"]
    /\ UNCHANGED <<id_to_kernel, kernel_to_id, kernel, idx, calls, got>>
    /\ UNCHANGED <<resets, raced>>
    /\ UNCHANGED notRegVars

\* mutant of get_kernel: the assert is dropped and a missing key gives None
get_kernelUnchecked(i) ==
    IF i \in DOMAIN id_to_kernel
    THEN [raised |-> FALSE, value |-> id_to_kernel[i]]
    ELSE [raised |-> FALSE, value |-> NoKernel]

\* get_kernel(i): assert i in self.id_to_kernel; return self.id_to_kernel[i]
\* (raised: the assert failed and no kernel is returned)
get_kernel(i) ==
    IF i \in DOMAIN id_to_kernel
    THEN [raised |-> FALSE, value |-> id_to_kernel[i]]
    ELSE [raised |-> TRUE, value |-> NoKernel]

\* a thread resolves a handle; get_kernel takes no lock
CallGetKernel(t, i) ==
    /\ pc[t] = "idle"
    /\ got' = [idx |-> i, raised |-> get_kernel(i).raised, value |-> get_kernel(i).value]
    /\ UNCHANGED <<id_to_kernel, kernel_to_id, lock, pc, kernel, idx, calls, returned>>
    /\ UNCHANGED <<resets, raced, issued>>
    /\ UNCHANGED notRegVars

\* mutant of ResetIdToKernel: reset_table takes the lock's being free as a
\* condition to start
ResetIdToKernelWhenUnlocked(t) ==
    /\ pc[t] = "idle"
    /\ lock = NoThread
    /\ calls < MaxCalls
    /\ calls' = calls + 1
    /\ id_to_kernel' = EmptyDict
    /\ resets' = resets + 1
    /\ raced' = (raced \/ \E u \in Threads \ {t} : pc[u] # "idle")
    /\ pc' = [pc EXCEPT ![t] = "reset_kernel_to_id"]
    /\ UNCHANGED <<kernel_to_id, lock, kernel, idx, returned, got, issued>>
    /\ UNCHANGED notRegVars

\* reset_table, first statement: self.id_to_kernel = dict()
ResetIdToKernel(t) ==
    /\ pc[t] = "idle"
    /\ calls < MaxCalls
    /\ calls' = calls + 1
    /\ id_to_kernel' = EmptyDict
    /\ resets' = resets + 1
    /\ raced' = (raced \/ \E u \in Threads \ {t} : pc[u] # "idle")
    /\ pc' = [pc EXCEPT ![t] = "reset_kernel_to_id"]
    /\ UNCHANGED <<kernel_to_id, lock, kernel, idx, returned, got, issued>>
    /\ UNCHANGED notRegVars

\* mutant of ResetKernelToId: the second map is left as it was
ResetKernelToIdKept(t) ==
    /\ pc[t] = "reset_kernel_to_id"
    /\ raced' = (raced \/ \E u \in Threads \ {t} : pc[u] # "idle")
    /\ pc' = [pc EXCEPT ![t] = "idle"]
    /\ UNCHANGED <<id_to_kernel, kernel_to_id, lock, kernel, idx, calls, returned, got,
                   resets, issued>>
    /\ UNCHANGED notRegVars

\* reset_table, second statement: self.kernel_to_id = dict()
ResetKernelToId(t) ==
    /\ pc[t] = "reset_kernel_to_id"
    /\ kernel_to_id' = EmptyDict
    /\ raced' = (raced \/ \E u \in Threads \ {t} : pc[u] # "idle")
    /\ pc' = [pc EXCEPT ![t] = "idle"]
    /\ UNCHANGED <<id_to_kernel, lock, kernel, idx, calls, returned, got, resets, issued>>
    /\ UNCHANGED notRegVars

RegNext ==
    \E t \in Threads :
        \/ \E k \in KernelPool : CallAddKernel(t, k)
        \/ Acquire(t)
        \/ CheckRegistered(t)
        \/ AllocIdx(t)
        \/ PutIdToKernel(t)
        \/ PutKernelToId(t)
        \/ ReturnIdx(t)
        \/ \E i \in Handles : CallGetKernel(t, i)

\* the registry with reset_table among the calls a thread may make
ResetNext ==
    \/ RegNext
    \/ \E t \in Threads : ResetIdToKernel(t)
    \/ \E t \in Threads : ResetKernelToId(t)


\* ------------------------------------------------------------ syntax trees
\* A node of the tree kernel.parse() returns.  kind is the ast class; id is a
\* Name's identifier; func is a Call's callee, <<base, attr>> for base.attr(...)
\* and <<base, "">> for base(...); kids are the child nodes in field order
\* (Call: args; IfExp: test, body, orelse; Assign: targets[0], value;
\* Expr: value; FunctionDef: body).
NoFunc == <<"", "">>

NameNode(n) == [kind |-> "Name", id |-> n, func |-> NoFunc, kids |-> <<>>]

CallNode(f, args) == [kind |-> "Call", id |-> "", func |-> f, kids |-> args]

IfExpNode(test, body, orelse) ==
    [kind |-> "IfExp", id |-> "", func |-> NoFunc, kids |-> <<test, body, orelse>>]

AssignNode(target, value) ==
    [kind |-> "Assign", id |-> "", func |-> NoFunc, kids |-> <<NameNode(target), value>>]

ExprNode(value) == [kind |-> "Expr", id |-> "", func |-> NoFunc, kids |-> <<value>>]

FunctionDefNode(body) == [kind |-> "FunctionDef", id |-> "", func |-> NoFunc, kids |-> body]

\* node.func of a Call: Attribute(value=Name(base), attr) or Name(base)
FuncNode(node) ==
    IF node.func[2] # ""
    THEN [kind |-> "Attribute", id |-> node.func[2], func |-> NoFunc,
          kids |-> <<NameNode(node.func[1])>>]
    ELSE NameNode(node.func[1])

\* ast.iter_child_nodes: the children generic_visit walks, in field order
\* (a Call's func comes before its args)
ChildNodes(node) ==
    IF node.kind = "Call" THEN <<FuncNode(node)>> \o node.kids ELSE node.kids

\* ----------------------------------------------------------- MutationTracker
ALLOWED_READ_FNS ==
    {"load", "max_constancy", "max_contiguous", "multiple_of",
     "static_print", "static_assert", "device_print", "device_assert"}

\* MutationInfo()
MutationInfo == [mutated |-> FALSE, used_in_unknown |-> FALSE]

\* list -> set of its elements
Elems(seq) == {seq[i] : i \in 1..Len(seq)}

\* the keys of {name: ... for name in tensors}, in insertion order
RECURSIVE DictKeys(_)
DictKeys(seq) ==
    IF seq = <<>> THEN <<>>
    ELSE LET front == DictKeys(SubSeq(seq, 1, Len(seq) - 1))
             last == seq[Len(seq)]
         IN IF last \in Elems(front) THEN front ELSE Append(front, last)

\* MutationTracker.__init__: the tracker's state.  raised is set when an
\* assert of the pass failed and the AssertionError is unwinding the visit.
TrackerInit(names) ==
    [infos |-> [n \in Elems(names) |-> MutationInfo],
     read_depth |-> 0,
     in_store |-> FALSE,
     raised |-> FALSE]

\* mutant of visit_Name: a reference inside a store is not recorded as mutated
visit_NameStoreIgnored(node, st) ==
    IF node.id \notin DOMAIN st.infos THEN st
    ELSE IF st.read_depth # 0 THEN st
    ELSE IF st.in_store THEN st
    ELSE [st EXCEPT !.infos[node.id].used_in_unknown = TRUE]

\* mutant of visit_Name: only stores are recorded, other uses are ignored
visit_NameUnknownIgnored(node, st) ==
    IF node.id \notin DOMAIN st.infos THEN st
    ELSE IF st.read_depth # 0 THEN st
    ELSE IF st.in_store THEN [st EXCEPT !.infos[node.id].mutated = TRUE]
    ELSE st

visit_Name(node, st) ==
    IF node.id \notin DOMAIN st.infos THEN st
    ELSE IF st.read_depth # 0 THEN st
    ELSE IF st.in_store THEN [st EXCEPT !.infos[node.id].mutated = TRUE]
    ELSE [st EXCEPT !.infos[node.id].used_in_unknown = TRUE]

RECURSIVE visit(_, _), VisitEach(_, _, _)

\* ast.NodeVisitor.generic_visit: visit every child in order; an exception
\* raised by one child ends the walk
generic_visit(node, st) == VisitEach(ChildNodes(node), 1, st)

\* isinstance(node.func, ast.Attribute) and isinstance(node.func.value, ast.Name)
\* and node.func.value.id == "tl"
IsTlCall(node) == node.func[2] # "" /\ node.func[1] = "tl"

\* mutant of visit_Call: leaving a read call resets the depth instead of
\* decrementing it
visit_CallDepthReset(node, st) ==
    IF IsTlCall(node) /\ node.func[2] = "store"
    THEN IF st.read_depth # 0 \/ st.in_store # FALSE
         THEN [st EXCEPT !.raised = TRUE]
         ELSE LET after == generic_visit(node, [st EXCEPT !.in_store = TRUE])
              IN IF after.raised THEN after ELSE [after EXCEPT !.in_store = FALSE]
    ELSE IF IsTlCall(node) /\ node.func[2] \in ALLOWED_READ_FNS
    THEN LET after == generic_visit(node, [st EXCEPT !.read_depth = @ + 1])
         IN IF after.raised THEN after ELSE [after EXCEPT !.read_depth = 0]
    ELSE generic_visit(node, st)

\* mutant of visit_Call: the assert on in_store is dropped, a store inside a
\* store's arguments is accepted
visit_CallStoreInStore(node, st) ==
    IF IsTlCall(node) /\ node.func[2] = "store"
    THEN IF st.read_depth # 0
         THEN [st EXCEPT !.raised = TRUE]
         ELSE LET after == generic_visit(node, [st EXCEPT !.in_store = TRUE])
              IN IF after.raised THEN after ELSE [after EXCEPT !.in_store = FALSE]
    ELSE IF IsTlCall(node) /\ node.func[2] \in ALLOWED_READ_FNS
    THEN LET after == generic_visit(node, [st EXCEPT !.read_depth = @ + 1])
         IN IF after.raised THEN after ELSE [after EXCEPT !.read_depth = @ - 1]
    ELSE generic_visit(node, st)

\* mutant of visit_Call: the two asserts on a store are dropped
visit_CallNoAsserts(node, st) ==
    IF IsTlCall(node) /\ node.func[2] = "store"
    THEN LET after == generic_visit(node, [st EXCEPT !.in_store = TRUE])
         IN IF after.raised THEN after ELSE [after EXCEPT !.in_store = FALSE]
    ELSE IF IsTlCall(node) /\ node.func[2] \in ALLOWED_READ_FNS
    THEN LET after == generic_visit(node, [st EXCEPT !.read_depth = @ + 1])
         IN IF after.raised THEN after ELSE [after EXCEPT !.read_depth = @ - 1]
    ELSE generic_visit(node, st)

visit_Call(node, st) ==
    IF IsTlCall(node) /\ node.func[2] = "store"
    THEN \* assert self.read_depth == 0; assert self.in_store is False
         IF st.read_depth # 0 \/ st.in_store # FALSE
         THEN [st EXCEPT !.raised = TRUE]
         ELSE LET after == generic_visit(node, [st EXCEPT !.in_store = TRUE])
              IN IF after.raised THEN after ELSE [after EXCEPT !.in_store = FALSE]
    ELSE IF IsTlCall(node) /\ node.func[2] \in ALLOWED_READ_FNS
    THEN LET after == generic_visit(node, [st EXCEPT !.read_depth = @ + 1])
         IN IF after.raised THEN after ELSE [after EXCEPT !.read_depth = @ - 1]
    ELSE generic_visit(node, st)

\* ast.NodeVisitor.visit: dispatch on the node's class
visit(node, st) ==
    IF node.kind = "Name" THEN visit_Name(node, st)
    ELSE IF node.kind = "Call" THEN visit_Call(node, st)
    ELSE generic_visit(node, st)

VisitEach(nodes, i, st) ==
    IF i > Len(nodes) \/ st.raised THEN st
    ELSE VisitEach(nodes, i + 1, visit(nodes[i], st))

\* the tracker after tracker.visit(kernel.parse())
TrackerRun(tree, names) == visit(tree, TrackerInit(names))

\* mutant of MutatedOrUnknown: only info.mutated is looked at
MutatedOnly(keys, inf) == SelectSeq(keys, LAMBDA n : inf[n].mutated)

\* [name for name, info in infos.items() if info.mutated or info.used_in_unknown]
MutatedOrUnknown(keys, inf) ==
    SelectSeq(keys, LAMBDA n : inf[n].mutated \/ inf[n].used_in_unknown)

\* filter_non_mutated(kernel, tensors) when the pass does not raise
filter_non_mutated(tree, names) ==
    MutatedOrUnknown(DictKeys(names), TrackerRun(tree, names).infos)

\* ------------------------------------------------- the kernels analysed
\* The kernels are enumerated as lists (a list is built in linear time).

\* identifiers a kernel body refers to: its pointer parameters
NameIds == <<"in_ptr", "out_ptr">>

\* targets of an assignment: a local variable, or a parameter rebound
AssignTargets == <<"a", "out_ptr">>

\* callees: the store, an allow-listed read, another tl function, and a
\* store method of something that is not tl
Callees == << <<"tl", "store">>, <<"tl", "load">>, <<"tl", "arange">>, <<"lib", "store">> >>

\* the lists of names filter_non_mutated is asked to track
TensorLists == {<<"in_ptr", "out_ptr">>, <<"out_ptr", "in_ptr">>, <<"out_ptr">>}

\* the concatenation of a list of lists
RECURSIVE Flatten(_)
Flatten(lists) ==
    IF lists = <<>> THEN <<>>
    ELSE Flatten(SubSeq(lists, 1, Len(lists) - 1)) \o lists[Len(lists)]

\* <<F(x) : x in xs>> and <<F(x, y) : x in xs, y in ys>>
MapList(F(_), xs) == [k \in 1..Len(xs) |-> F(xs[k])]

MapPairs(F(_, _), xs, ys) ==
    [k \in 1..(Len(xs) * Len(ys)) |->
        F(xs[((k - 1) \div Len(ys)) + 1], ys[((k - 1) % Len(ys)) + 1])]

\* expressions with exactly n counted nodes (n >= 2), given the list smaller
\* of the lists of expressions with 1 .. n-1 nodes: f(a), f(a, b) and
\* (x if c else y)
ExprsFrom(smaller, n) ==
    Flatten(MapList(LAMBDA f :
                MapList(LAMBDA a : CallNode(f, <<a>>), smaller[n - 1]),
            Callees))
    \o Flatten(MapPairs(LAMBDA f, i :
                MapPairs(LAMBDA a, b : CallNode(f, <<a, b>>), smaller[i], smaller[n - 1 - i]),
            Callees, [i \in 1..(n - 2) |-> i]))
    \o Flatten(MapPairs(LAMBDA x, y :
                MapList(LAMBDA c : IfExpNode(c, NameNode(x), NameNode(y)), smaller[n - 1]),
            NameIds, NameIds))

\* <<expressions with 1 node, ..., expressions with n nodes>>
RECURSIVE ExprLevels(_)
ExprLevels(n) ==
    IF n = 1 THEN <<MapList(NameNode, NameIds)>>
    ELSE LET smaller == ExprLevels(n - 1)
         IN Append(smaller, ExprsFrom(smaller, n))

ExprsOfSize == ExprLevels(MaxNodes)

\* statements with exactly n counted nodes (n >= 2): t = e and e
StmtsOfSize(n) ==
    Flatten(MapList(LAMBDA t :
                MapList(LAMBDA e : AssignNode(t, e), ExprsOfSize[n - 1]),
            AssignTargets))
    \o MapList(ExprNode, ExprsOfSize[n - 1])

\* function definitions with one or two statements and at most MaxNodes nodes
Kernels ==
    Flatten([n \in 1..(MaxNodes - 1) |->
                MapList(LAMBDA s : FunctionDefNode(<<s>>), StmtsOfSize(n + 1))])
    \o Flatten(MapPairs(LAMBDA n, m :
                  IF n + m <= MaxNodes
                  THEN MapPairs(LAMBDA s1, s2 : FunctionDefNode(<<s1, s2>>),
                                StmtsOfSize(n), StmtsOfSize(m))
                  ELSE <<>>,
               [n \in 1..(MaxNodes - 1) |-> n + 1], [n \in 1..(MaxNodes - 1) |-> n + 1]))

\* ---------------------------------------------------- filter_non_mutated
AnaIdle ==
    /\ ast = FunctionDefNode(<<>>)
    /\ tensors = <<>>
    /\ apc = "idle"
    /\ infos = <<>>
    /\ mutated_names = <<>>

\* a caller is about to run filter_non_mutated(kernel, tensors)
AnaInit ==
    /\ \E k \in 1..Len(Kernels) : ast = Kernels[k]
    /\ tensors \in TensorLists
    /\ apc = "parsed"
    /\ infos = TrackerInit(tensors).infos
    /\ mutated_names = <<>>

\* the pass completes and the list is returned
FilterReturns ==
    /\ apc = "parsed"
    /\ LET st == TrackerRun(ast, tensors)
       IN /\ ~st.raised
          /\ infos' = st.infos
    /\ mutated_names' = filter_non_mutated(ast, tensors)
    /\ apc' = "returned"
    /\ UNCHANGED <<ast, tensors>>
    /\ UNCHANGED notAnaVars

\* an assert of visit_Call fails: the AssertionError leaves filter_non_mutated
FilterRaises ==
    /\ apc = "parsed"
    /\ LET st == TrackerRun(ast, tensors)
       IN /\ st.raised
          /\ infos' = st.infos
    /\ apc' = "raised"
    /\ UNCHANGED <<ast, tensors, mutated_names>>
    /\ UNCHANGED notAnaVars

AnaNext == FilterReturns \/ FilterRaises

\* ------------------------------------------------------------ buffers
Storages == 1..NumBuffers

\* what a buffer may hold
Data == {<<0, 0, 0>>, <<1, 2, 3>>}

NoStorage == 0

\* an argument value: a tensor (a view of a storage) or a plain scalar
TensorVal(s) == [is_tensor |-> TRUE, storage |-> s]

ScalarVal == [is_tensor |-> FALSE, storage |-> NoStorage]

\* kwargs.keys(), in order
KwargKeys == <<"in_ptr", "out_ptr", "n_elements">>

\* [key for key, value in kw.items() if isinstance(value, Tensor)]
TensorKeys(kw) == SelectSeq(KwargKeys, LAMBDA key : kw[key].is_tensor)

\* clone_preserve_strides(val): a new storage holding a copy of val's data
FreshStorage(h) == Cardinality(DOMAIN h) + 1

clone_preserve_strides(h, s) ==
    [x \in (DOMAIN h) \cup {FreshStorage(h)} |-> IF x \in DOMAIN h THEN h[x] ELSE h[s]]

\* ------------------------------------------------------- external kernels
\* The kernels in the side table: each has the syntax tree its parse() returns
\* and what launching it does, a list of <<destination, source>> parameter
\* names, the destination buffer receiving the source buffer's data.
StoreLoad(target) ==
    ExprNode(CallNode(<<"tl", "store">>,
                      <<target, CallNode(<<"tl", "load">>, <<NameNode("in_ptr")>>)>>))

\* tl.store(out_ptr, tl.load(in_ptr))
CopyKernel ==
    [tree |-> FunctionDefNode(<<StoreLoad(NameNode("out_ptr"))>>),
     copies |-> << <<"out_ptr", "in_ptr">> >>]

\* tl.load(in_ptr)
ReadOnlyKernel ==
    [tree |-> FunctionDefNode(<<ExprNode(CallNode(<<"tl", "load">>, <<NameNode("in_ptr")>>))>>),
     copies |-> <<>>]

\* a = out_ptr; tl.store(a, tl.load(in_ptr))
AliasKernel ==
    [tree |-> FunctionDefNode(<<AssignNode("a", NameNode("out_ptr")), StoreLoad(NameNode("a"))>>),
     copies |-> << <<"out_ptr", "in_ptr">> >>]

\* tl.store(tl.multiple_of(out_ptr), tl.load(in_ptr))
HintedKernel ==
    [tree |-> FunctionDefNode(<<StoreLoad(CallNode(<<"tl", "multiple_of">>, <<NameNode("out_ptr")>>))>>),
     copies |-> << <<"out_ptr", "in_ptr">> >>]

\* tl.load(tl.store(out_ptr, in_ptr)): rejected by the analysis
NestedKernel ==
    [tree |-> FunctionDefNode(<<ExprNode(CallNode(<<"tl", "load">>,
                 <<CallNode(<<"tl", "store">>, <<NameNode("out_ptr"), NameNode("in_ptr")>>)>>))>>),
     copies |-> << <<"out_ptr", "in_ptr">> >>]

\* tl.store(out_ptr, tl.arange()): writes data that comes from no argument
FillKernel ==
    [tree |-> FunctionDefNode(<<ExprNode(CallNode(<<"tl", "store">>,
                 <<NameNode("out_ptr"), CallNode(<<"tl", "arange">>, <<>>)>>))>>),
     copies |-> << <<"out_ptr", "">> >>]

\* what a kernel writes when the source is no argument
FillData == <<1, 2, 3>>

\* tl.store(out_ptr, tl.load(in_ptr)); tl.store(in_ptr, tl.arange())
ShiftKernel ==
    [tree |-> FunctionDefNode(<<StoreLoad(NameNode("out_ptr")),
                                ExprNode(CallNode(<<"tl", "store">>,
                                    <<NameNode("in_ptr"), CallNode(<<"tl", "arange">>, <<>>)>>))>>),
     copies |-> << <<"out_ptr", "in_ptr">>, <<"in_ptr", "">> >>]

KernelTable ==
    <<CopyKernel, ReadOnlyKernel, AliasKernel, HintedKernel, NestedKernel, FillKernel,
      ShiftKernel>>

\* how a launch of the external kernel ends: normally, or by raising before or
\* after it has written its buffers
Faults == {"none", "before", "after"}

\* the grid argument: one grid function, or one grid per configuration
Grids == {<<"grid_fn">>, <<"grid_a", "grid_b">>}

\* lines 176-184: grid[0], or the function generated from the grid list
GridFn(g) == IF Len(g) = 1 THEN g[1] ELSE "generated_grid_fn"

\* kernel[grid_fn](**kwargs): the launch writes the buffers passed to it
RECURSIVE RunCopies(_, _, _, _)
RunCopies(h, copies, kw, i) ==
    IF i > Len(copies) THEN h
    ELSE RunCopies([h EXCEPT ![kw[copies[i][1]].storage] =
                           IF copies[i][2] = "" THEN FillData
                           ELSE h[kw[copies[i][2]].storage]],
                   copies, kw, i + 1)

KernelLaunch(h, k, kw) == RunCopies(h, KernelTable[k].copies, kw, 1)

\* ------------------------------------------------ operator implementations
\* triton_kernel_wrapper_mutation_dense(kernel_idx, grid, kwargs) on heap h
\* the external kernel ends as fault says; err is the exception that leaves
triton_kernel_wrapper_mutation_dense(h, kidx, g, kw, fault) ==
    LET found == get_kernel(kidx)
    IN IF found.raised
       THEN [heap |-> h, err |-> "AssertionError", launched |-> <<>>]
       ELSE [heap |-> IF fault = "before" THEN h ELSE KernelLaunch(h, found.value, kw),
             err |-> IF fault = "none" THEN "none" ELSE "KernelError",
             launched |-> <<[kernel |-> found.value, grid_fn |-> GridFn(g), ended |-> fault]>>]

\* lines 272-275: {key: clone_preserve_strides(val) if key in tensors_to_clone
\* else val for key, val in kwargs.items()}, from the i-th key on
RECURSIVE CloneArgs(_, _, _, _)
CloneArgs(h, kw, names, i) ==
    IF i > Len(KwargKeys) THEN [heap |-> h, kwargs |-> kw]
    ELSE IF KwargKeys[i] \in Elems(names)
    THEN CloneArgs(clone_preserve_strides(h, kw[KwargKeys[i]].storage),
                   [kw EXCEPT ![KwargKeys[i]] = TensorVal(FreshStorage(h))],
                   names, i + 1)
    ELSE CloneArgs(h, kw, names, i + 1)

\* mutant of OutputsOf: the caller's values are returned instead of the clones
OutputsOfOriginals(original, working, names) ==
    [key \in {k \in Elems(KwargKeys) : k \in Elems(names)} |-> original[key]]

\* line 277: {key: val for key, val in kwargs.items() if key in tensors_to_clone}
OutputsOf(original, working, names) ==
    [key \in {k \in Elems(KwargKeys) : k \in Elems(names)} |-> working[key]]

\* mutant of triton_kernel_wrapper_functional_dense: the exception of the
\* mutating form is caught and the mapping returned all the same
triton_kernel_wrapper_functional_dense_catching(h, kidx, g, kw, names, fault) ==
    LET cloned == CloneArgs(h, kw, names, 1)
        ran == triton_kernel_wrapper_mutation_dense(cloned.heap, kidx, g, cloned.kwargs, fault)
    IN [heap |-> ran.heap,
        err |-> "none",
        launched |-> ran.launched,
        outputs |-> OutputsOf(kw, cloned.kwargs, names)]

\* triton_kernel_wrapper_functional_dense(kernel_idx, grid, kwargs,
\* tensors_to_clone) on heap h; outputs is what it returns when nothing raised
triton_kernel_wrapper_functional_dense(h, kidx, g, kw, names, fault) ==
    LET cloned == CloneArgs(h, kw, names, 1)
        ran == triton_kernel_wrapper_mutation_dense(cloned.heap, kidx, g, cloned.kwargs, fault)
    IN [heap |-> ran.heap,
        err |-> ran.err,
        launched |-> ran.launched,
        outputs |-> OutputsOf(kw, cloned.kwargs, names)]

\* the steps of one functional-form call, for the history: the clones in
\* kwargs order, then the launch, then the return
StepsOfFunctional(names, ran) ==
    [i \in 1..Len(SelectSeq(KwargKeys, LAMBDA key : key \in Elems(names))) |->
        <<"clone", SelectSeq(KwargKeys, LAMBDA key : key \in Elems(names))[i]>>]
    \o [i \in 1..Len(ran.launched) |-> <<"launch", "">>]
    \o (IF ran.err = "none" THEN << <<"functional_returned", "">> >> ELSE <<>>)

\* ------------------------------------------------- functionalization context
\* The wrapper that tracks one tensor argument: the tensor it currently stands
\* for, whether its last replacement is still visible to autograd, and whether
\* an update is waiting to be committed or synchronised.
NewWrapper(s) ==
    [value |-> s, exposed |-> FALSE, uncommitted |-> FALSE, unsynced |-> FALSE]

\* ctx.unwrap_tensors(kwargs)
UnwrapTensors(kw, ws) ==
    [key \in DOMAIN kw |->
        IF kw[key].is_tensor THEN TensorVal(ws[key].value) ELSE kw[key]]

\* ctx.replace(input_arg, output_arg)
CtxReplace(w, s) == [w EXCEPT !.value = s, !.exposed = TRUE, !.uncommitted = TRUE]

\* ctx.mark_mutation_hidden_from_autograd(input_arg)
CtxMarkHidden(w) == [w EXCEPT !.exposed = FALSE]

\* ctx.commit_update(input_arg)
CtxCommit(w) == [w EXCEPT !.uncommitted = FALSE, !.unsynced = TRUE]

\* ctx.sync(input_arg): may replace the tracked value under the hood
CtxSync(w, replaces) ==
    [w EXCEPT !.unsynced = FALSE, !.exposed = IF replaces THEN TRUE ELSE @]

\* -------------------------------------------------------- an operator call
\* the side table holds the kernels of KernelTable under handles 0, 1, ...
OpRegistry ==
    /\ id_to_kernel = [h \in 0..(Len(KernelTable) - 1) |-> h + 1]
    /\ kernel_to_id = [k \in 1..Len(KernelTable) |-> k - 1]
    /\ lock = NoThread
    /\ pc = [t \in Threads |-> "idle"]
    /\ kernel = [t \in Threads |-> NoKernel]
    /\ idx = [t \in Threads |-> NoIdx]
    /\ calls = 0
    /\ returned = {}
    /\ got = [idx |-> NoIdx, raised |-> FALSE, value |-> NoKernel]
    /\ resets = 0
    /\ raced = FALSE
    /\ issued = {}

\* the lists of names a caller passes as tensors_to_clone
CloneLists == {<<>>, <<"out_ptr">>, <<"in_ptr">>, <<"in_ptr", "out_ptr">>}

OpIdle ==
    /\ heap = <<>>
    /\ heap0 = <<>>
    /\ kwargs = <<>>
    /\ unwrapped_kwargs = <<>>
    /\ launched = <<>>
    /\ wrappers = <<>>
    /\ mode = "none"
    /\ kernel_idx = NoIdx
    /\ grid = <<>>
    /\ tensors_to_clone = <<>>
    /\ outputs = <<>>
    /\ pos = 0
    /\ opc = "idle"
    /\ err = "none"
    /\ events = <<>>
    /\ enable_tracing = FALSE
    /\ graph = <<>>

\* the handlers an operator call is dispatched to
MutationModes == {"mutation_dense", "mutation_fake", "mutation_proxy", "functionalize"}

FunctionalModes == {"functional_dense", "functional_proxy"}

\* an operator is called with a handle (the last one of the range is not
\* registered), a grid and a bundle of two tensors (possibly views of one
\* storage) and a scalar
OpInit ==
    /\ mode \in MutationModes \cup FunctionalModes
    /\ kernel_idx \in 0..Len(KernelTable)
    /\ grid \in Grids
    /\ heap \in [Storages -> Data]
    /\ heap0 = heap
    /\ \E s_in \in Storages, s_out \in Storages :
          kwargs = [key \in Elems(KwargKeys) |->
                       IF key = "in_ptr" THEN TensorVal(s_in)
                       ELSE IF key = "out_ptr" THEN TensorVal(s_out)
                       ELSE ScalarVal]
    /\ unwrapped_kwargs = <<>>
    /\ launched = <<>>
    /\ wrappers = IF mode = "functionalize"
                  THEN [key \in Elems(TensorKeys(kwargs)) |-> NewWrapper(kwargs[key].storage)]
                  ELSE <<>>
    /\ tensors_to_clone \in (IF mode \in FunctionalModes THEN CloneLists ELSE {<<>>})
    /\ outputs = <<>>
    /\ pos = 0
    /\ opc = "called"
    /\ err = "none"
    /\ events = <<>>
    /\ enable_tracing \in (IF mode \in {"mutation_proxy", "functional_proxy"}
                           THEN BOOLEAN ELSE {FALSE})
    /\ graph = <<>>

\* triton_kernel_wrapper_mutation called in dense mode
CallMutationDense ==
    /\ mode = "mutation_dense"
    /\ opc = "called"
    /\ \E fault \in Faults :
          LET ran == triton_kernel_wrapper_mutation_dense(heap, kernel_idx, grid, kwargs, fault)
          IN /\ heap' = ran.heap
             /\ launched' = launched \o ran.launched
             /\ events' = events \o [i \in 1..Len(ran.launched) |-> <<"launch", "">>]
             /\ opc' = IF ran.err = "none" THEN "returned" ELSE "raised"
             /\ err' = ran.err
    /\ UNCHANGED <<heap0, kwargs, unwrapped_kwargs, wrappers, mode, kernel_idx, grid,
                   tensors_to_clone, outputs, pos, enable_tracing, graph>>
    /\ UNCHANGED notOpVars

\* triton_kernel_wrapper_functional called in dense mode
CallFunctionalDense ==
    /\ mode = "functional_dense"
    /\ opc = "called"
    /\ \E fault \in Faults :
          LET ran == triton_kernel_wrapper_functional_dense(
                         heap, kernel_idx, grid, kwargs, tensors_to_clone, fault)
          IN /\ heap' = ran.heap
             /\ launched' = launched \o ran.launched
             /\ events' = events \o StepsOfFunctional(tensors_to_clone, ran)
             /\ outputs' = IF ran.err = "none" THEN ran.outputs ELSE outputs
             /\ opc' = IF ran.err = "none" THEN "returned" ELSE "raised"
             /\ err' = ran.err
    /\ UNCHANGED <<heap0, kwargs, unwrapped_kwargs, wrappers, mode, kernel_idx, grid,
                   tensors_to_clone, pos, enable_tracing, graph>>
    /\ UNCHANGED notOpVars

\* mutant of CallMutationFake: the abstract mode runs the dense handler
CallMutationFakeLaunching ==
    /\ mode = "mutation_fake"
    /\ opc \in {"called", "returned"}
    /\ Len(events) < MaxRepeat
    /\ LET ran == triton_kernel_wrapper_mutation_dense(heap, kernel_idx, grid, kwargs, "none")
       IN /\ heap' = ran.heap
          /\ launched' = launched \o ran.launched
          /\ opc' = IF ran.err = "none" THEN "returned" ELSE "raised"
          /\ err' = ran.err
    /\ events' = Append(events, <<"fake_mode", "">>)
    /\ UNCHANGED <<heap0, kwargs, unwrapped_kwargs, wrappers, mode, kernel_idx, grid,
                   tensors_to_clone, outputs, pos, enable_tracing, graph>>
    /\ UNCHANGED notOpVars

\* triton_kernel_wrapper_mutation_fake_tensor_mode: with mode: return None.
\* The caller may call it again with the same arguments.
CallMutationFake ==
    /\ mode = "mutation_fake"
    /\ opc \in {"called", "returned"}
    /\ Len(events) < MaxRepeat
    /\ events' = Append(events, <<"fake_mode", "">>)
    /\ opc' = "returned"
    /\ UNCHANGED <<heap, heap0, kwargs, unwrapped_kwargs, launched, wrappers, mode,
                   kernel_idx, grid, tensors_to_clone, outputs, pos, err,
                   enable_tracing, graph>>
    /\ UNCHANGED notOpVars

\* ---- triton_kernel_wrapper_mutation_functionalize, statement by statement
\* lines 228-231: unwrapped_kwargs and the keys holding tensors
BridgeUnwrap ==
    /\ mode = "functionalize"
    /\ opc = "called"
    /\ unwrapped_kwargs' = UnwrapTensors(kwargs, wrappers)
    /\ tensors_to_clone' = TensorKeys(UnwrapTensors(kwargs, wrappers))
    /\ events' = Append(events, <<"unwrap_tensors", "">>)
    /\ opc' = "get_kernel"
    /\ UNCHANGED <<heap, heap0, kwargs, launched, wrappers, mode, kernel_idx, grid,
                   outputs, pos, err, enable_tracing, graph>>
    /\ UNCHANGED notOpVars

\* lines 232-237: kernel = get_kernel(kernel_idx);
\* tensors_to_clone = filter_non_mutated(kernel, tensors_to_clone)
BridgeFilter ==
    /\ opc = "get_kernel"
    /\ LET found == get_kernel(kernel_idx)
       IN IF found.raised
          THEN /\ opc' = "raised"
               /\ err' = "AssertionError"
               /\ UNCHANGED tensors_to_clone
          ELSE IF TrackerRun(KernelTable[found.value].tree, tensors_to_clone).raised
          THEN /\ opc' = "raised"
               /\ err' = "AssertionError"
               /\ UNCHANGED tensors_to_clone
          ELSE /\ tensors_to_clone' =
                      filter_non_mutated(KernelTable[found.value].tree, tensors_to_clone)
               /\ opc' = "functional"
               /\ UNCHANGED err
    /\ events' = Append(events, <<"filter_non_mutated", "">>)
    /\ UNCHANGED <<heap, heap0, kwargs, unwrapped_kwargs, launched, wrappers, mode,
                   kernel_idx, grid, outputs, pos, enable_tracing, graph>>
    /\ UNCHANGED notOpVars

\* unwrapped_outputs.keys(), in order
OutputKeys == SelectSeq(KwargKeys, LAMBDA key : key \in DOMAIN outputs)

\* What the handler of the next layer may return besides the mapping of the
\* dense handler: nothing more, or an entry under a name the bundle lacks.
ForeignKeys == {{}, {"scratch_ptr"}}

WithForeign(out, keys) ==
    [key \in (DOMAIN out) \cup keys |->
        IF key \in DOMAIN out THEN out[key] ELSE TensorVal(NoStorage)]

\* mutant of AssertOutputsInScope: the assert of line 246 is dropped
AssertOutputsInScopeDropped(out, kw) == TRUE

\* line 246: set(unwrapped_outputs.keys()).issubset(set(kwargs.keys()))
AssertOutputsInScope(out, kw) == DOMAIN out \subseteq DOMAIN kw

\* lines 238-246: the functional form runs in the next layer; then
\* assert set(unwrapped_outputs.keys()).issubset(set(kwargs.keys()))
BridgeFunctional ==
    /\ opc = "functional"
    /\ \E fault \in Faults, foreign \in ForeignKeys :
          LET ran == triton_kernel_wrapper_functional_dense(
                         heap, kernel_idx, grid, unwrapped_kwargs, tensors_to_clone, fault)
              out == WithForeign(ran.outputs, foreign)
          IN /\ heap' = ran.heap
             /\ launched' = launched \o ran.launched
             /\ events' = events \o StepsOfFunctional(tensors_to_clone, ran)
             /\ IF ran.err # "none"
                THEN /\ opc' = "raised"
                     /\ err' = ran.err
                     /\ UNCHANGED <<outputs, pos>>
                ELSE IF ~AssertOutputsInScope(out, kwargs)
                THEN /\ outputs' = out
                     /\ opc' = "raised"
                     /\ err' = "AssertionError"
                     /\ UNCHANGED pos
                ELSE /\ outputs' = out
                     /\ pos' = 1
                     /\ opc' = IF SelectSeq(KwargKeys, LAMBDA key : key \in DOMAIN out) = <<>>
                               THEN "returned" ELSE "replace"
                     /\ UNCHANGED err
    /\ UNCHANGED <<heap0, kwargs, unwrapped_kwargs, wrappers, mode, kernel_idx, grid,
                   tensors_to_clone, enable_tracing, graph>>
    /\ UNCHANGED notOpVars

\* the frame of a splice step: everything but wrappers, opc, events (and pos)
SpliceFrame ==
    UNCHANGED <<heap, heap0, kwargs, unwrapped_kwargs, launched, mode, kernel_idx,
                grid, tensors_to_clone, outputs, err, enable_tracing, graph>>

\* mutant of BridgeReplace: every tracked argument that views the storage of
\* input_arg is replaced along with it
BridgeReplacePerStorage ==
    /\ opc = "replace"
    /\ wrappers' = [key \in DOMAIN wrappers |->
                       IF kwargs[key].storage = kwargs[OutputKeys[pos]].storage
                       THEN CtxReplace(wrappers[key], outputs[OutputKeys[pos]].storage)
                       ELSE wrappers[key]]
    /\ events' = Append(events, <<"replace", OutputKeys[pos]>>)
    /\ opc' = "mark_hidden"
    /\ UNCHANGED pos
    /\ SpliceFrame
    /\ UNCHANGED notOpVars

\* lines 247-253: ctx.replace(input_arg, output_arg)
BridgeReplace ==
    /\ opc = "replace"
    /\ wrappers' = [wrappers EXCEPT ![OutputKeys[pos]] =
                        CtxReplace(@, outputs[OutputKeys[pos]].storage)]
    /\ events' = Append(events, <<"replace", OutputKeys[pos]>>)
    /\ opc' = "mark_hidden"
    /\ UNCHANGED pos
    /\ SpliceFrame
    /\ UNCHANGED notOpVars

\* line 255: ctx.mark_mutation_hidden_from_autograd(input_arg)
BridgeMarkHidden ==
    /\ opc = "mark_hidden"
    /\ wrappers' = [wrappers EXCEPT ![OutputKeys[pos]] = CtxMarkHidden(@)]
    /\ events' = Append(events, <<"mark_hidden", OutputKeys[pos]>>)
    /\ opc' = "commit"
    /\ UNCHANGED pos
    /\ SpliceFrame
    /\ UNCHANGED notOpVars

\* line 256: ctx.commit_update(input_arg)
BridgeCommit ==
    /\ opc = "commit"
    /\ wrappers' = [wrappers EXCEPT ![OutputKeys[pos]] = CtxCommit(@)]
    /\ events' = Append(events, <<"commit_update", OutputKeys[pos]>>)
    /\ opc' = "sync"
    /\ UNCHANGED pos
    /\ SpliceFrame
    /\ UNCHANGED notOpVars

\* mutant of BridgeSync: the loop goes on to the next item right after sync
BridgeSyncThenNext ==
    /\ opc = "sync"
    /\ \E replaces \in BOOLEAN :
          wrappers' = [wrappers EXCEPT ![OutputKeys[pos]] = CtxSync(@, replaces)]
    /\ events' = Append(events, <<"sync", OutputKeys[pos]>>)
    /\ pos' = pos + 1
    /\ opc' = IF pos = Len(OutputKeys) THEN "returned" ELSE "replace"
    /\ SpliceFrame
    /\ UNCHANGED notOpVars

\* line 257: ctx.sync(input_arg)
BridgeSync ==
    /\ opc = "sync"
    /\ \E replaces \in BOOLEAN :
          wrappers' = [wrappers EXCEPT ![OutputKeys[pos]] = CtxSync(@, replaces)]
    /\ events' = Append(events, <<"sync", OutputKeys[pos]>>)
    /\ opc' = "mark_hidden_again"
    /\ UNCHANGED pos
    /\ SpliceFrame
    /\ UNCHANGED notOpVars

\* mutant of BridgeMarkHiddenAgain: the marking after sync is left out
BridgeNoMarkAfterSync ==
    /\ opc = "mark_hidden_again"
    /\ pos' = pos + 1
    /\ opc' = IF pos = Len(OutputKeys) THEN "returned" ELSE "replace"
    /\ UNCHANGED <<wrappers, events>>
    /\ SpliceFrame
    /\ UNCHANGED notOpVars

\* line 260: ctx.mark_mutation_hidden_from_autograd(input_arg) again; then the
\* next item of the loop, or return None
BridgeMarkHiddenAgain ==
    /\ opc = "mark_hidden_again"
    /\ wrappers' = [wrappers EXCEPT ![OutputKeys[pos]] = CtxMarkHidden(@)]
    /\ events' = Append(events, <<"mark_hidden", OutputKeys[pos]>>)
    /\ pos' = pos + 1
    /\ opc' = IF pos = Len(OutputKeys) THEN "returned" ELSE "replace"
    /\ SpliceFrame
    /\ UNCHANGED notOpVars

\* ---- the ProxyTorchDispatchMode handlers of both operators
ProxyModes == {"mutation_proxy", "functional_proxy"}

\* func_overload(...): the operator both handlers pass on, and the operator
\* call itself, run by the dense handler of the next layer
OperatorOf(m) ==
    IF m = "mutation_proxy" THEN "triton_kernel_wrapper_mutation"
    ELSE "triton_kernel_wrapper_functional"

RunOperator(m, h, fault) ==
    IF m = "mutation_proxy"
    THEN LET ran == triton_kernel_wrapper_mutation_dense(h, kernel_idx, grid, kwargs, fault)
         IN [heap |-> ran.heap, err |-> ran.err, launched |-> ran.launched,
             outputs |-> <<>>,
             steps |-> [i \in 1..Len(ran.launched) |-> <<"launch", "">>]]
    ELSE LET ran == triton_kernel_wrapper_functional_dense(
                        h, kernel_idx, grid, kwargs, tensors_to_clone, fault)
         IN [heap |-> ran.heap, err |-> ran.err, launched |-> ran.launched,
             outputs |-> ran.outputs,
             steps |-> StepsOfFunctional(tensors_to_clone, ran)]

\* the node_args both handlers hand to trace_triton_kernel_wrapper
NodeArgs(m) ==
    IF m = "mutation_proxy" THEN {"kernel_idx", "grid", "kwargs"}
    ELSE {"kernel_idx", "grid", "kwargs", "tensors_to_clone"}

\* what a step records about the recording state it runs in
Recording == IF enable_tracing THEN "recording" ELSE "suspended"

\* mutant of ProxyDirect: a node is created on the direct path as well
ProxyDirectRecorded ==
    /\ mode \in ProxyModes
    /\ opc = "called"
    /\ ~enable_tracing
    /\ \E fault \in Faults :
          LET ran == RunOperator(mode, heap, fault)
          IN /\ heap' = ran.heap
             /\ launched' = launched \o ran.launched
             /\ events' = (events \o << <<"call", "direct">> >>) \o ran.steps
             /\ outputs' = IF ran.err = "none" THEN ran.outputs ELSE outputs
             /\ opc' = IF ran.err = "none" THEN "returned" ELSE "raised"
             /\ err' = ran.err
    /\ graph' = Append(graph, [target |-> OperatorOf(mode), args |-> NodeArgs(mode)])
    /\ UNCHANGED <<heap0, kwargs, unwrapped_kwargs, wrappers, mode, kernel_idx, grid,
                   tensors_to_clone, pos, enable_tracing>>
    /\ UNCHANGED notOpVars

\* lines 220-221 and 311-317: mode.enable_tracing is off, the operator is
\* called with the given kernel_idx, grid, kwargs (and tensors_to_clone)
ProxyDirect ==
    /\ mode \in ProxyModes
    /\ opc = "called"
    /\ ~enable_tracing
    /\ \E fault \in Faults :
          LET ran == RunOperator(mode, heap, fault)
          IN /\ heap' = ran.heap
             /\ launched' = launched \o ran.launched
             /\ events' = (events \o << <<"call", "direct">> >>) \o ran.steps
             /\ outputs' = IF ran.err = "none" THEN ran.outputs ELSE outputs
             /\ opc' = IF ran.err = "none" THEN "returned" ELSE "raised"
             /\ err' = ran.err
    /\ UNCHANGED <<heap0, kwargs, unwrapped_kwargs, wrappers, mode, kernel_idx, grid,
                   tensors_to_clone, pos, enable_tracing, graph>>
    /\ UNCHANGED notOpVars

\* lines 214/300 and 196: mode.enable_tracing is on; trace_triton_kernel_wrapper
\* enters disable_proxy_modes_tracing()
ProxySuspend ==
    /\ mode \in ProxyModes
    /\ opc = "called"
    /\ enable_tracing
    /\ enable_tracing' = FALSE
    /\ events' = Append(events, <<"disable_tracing", "">>)
    /\ opc' = "nested"
    /\ UNCHANGED <<heap, heap0, kwargs, unwrapped_kwargs, launched, wrappers, mode,
                   kernel_idx, grid, tensors_to_clone, outputs, pos, err, graph>>
    /\ UNCHANGED notOpVars

\* line 197: out = func_overload(**node_args); an exception leaves the with
\* block, which restores the flag
ProxyNested ==
    /\ opc = "nested"
    /\ \E fault \in Faults :
          LET ran == RunOperator(mode, heap, fault)
          IN /\ heap' = ran.heap
             /\ launched' = launched \o ran.launched
             /\ events' = (events \o << <<"call", Recording>> >>) \o ran.steps
             /\ outputs' = IF ran.err = "none" THEN ran.outputs ELSE outputs
             /\ opc' = IF ran.err = "none" THEN "resume" ELSE "raised"
             /\ enable_tracing' = IF ran.err = "none" THEN enable_tracing ELSE TRUE
             /\ err' = ran.err
    /\ UNCHANGED <<heap0, kwargs, unwrapped_kwargs, wrappers, mode, kernel_idx, grid,
                   tensors_to_clone, pos, graph>>
    /\ UNCHANGED notOpVars

\* the with block of line 196 is left: the flag is restored
ProxyResume ==
    /\ opc = "resume"
    /\ enable_tracing' = TRUE
    /\ events' = Append(events, <<"enable_tracing", "">>)
    /\ opc' = "create_proxy"
    /\ UNCHANGED <<heap, heap0, kwargs, unwrapped_kwargs, launched, wrappers, mode,
                   kernel_idx, grid, tensors_to_clone, outputs, pos, err, graph>>
    /\ UNCHANGED notOpVars

\* lines 199-207: proxy_mode.tracer.create_proxy("call_function", func_overload,
\* (), proxy_args, ...); track_tensor_tree(out, out_proxy, ...); the handler of
\* the mutating form then returns None, the functional one the tracked out
ProxyCreateNode ==
    /\ opc = "create_proxy"
    /\ graph' = Append(graph, [target |-> OperatorOf(mode), args |-> NodeArgs(mode)])
    /\ events' = Append(events, <<"create_proxy", Recording>>)
    /\ opc' = "returned"
    /\ UNCHANGED <<heap, heap0, kwargs, unwrapped_kwargs, launched, wrappers, mode,
                   kernel_idx, grid, tensors_to_clone, outputs, pos, err, enable_tracing>>
    /\ UNCHANGED notOpVars

OpNext ==
    \/ CallMutationDense
    \/ CallFunctionalDense
    \/ CallMutationFake
    \/ BridgeUnwrap
    \/ BridgeFilter
    \/ BridgeFunctional
    \/ BridgeReplace
    \/ BridgeMarkHidden
    \/ BridgeCommit
    \/ BridgeSync
    \/ BridgeMarkHiddenAgain
    \/ ProxyDirect
    \/ ProxySuspend
    \/ ProxyNested
    \/ ProxyResume
    \/ ProxyCreateNode

\* the registry alone: no analysis and no operator call is running
Init == RegInit /\ AnaIdle /\ OpIdle

Next == RegNext

Spec == Init /\ [][Next]_vars

\* the analyzer alone: filter_non_mutated applied to every kernel of Kernels
InitAnalyzer == AnaInit /\ RegInit /\ OpIdle

NextAnalyzer == AnaNext

SpecAnalyzer == InitAnalyzer /\ [][NextAnalyzer]_vars

\* the registry, its threads calling add_kernel, get_kernel and reset_table
SpecReset == Init /\ [][ResetNext]_vars

\* one operator call: the mutating form or the functional form run directly,
\* or the mutating form run through the functionalization bridge
InitOps == OpRegistry /\ AnaIdle /\ OpInit

NextOps == OpNext

SpecOps == InitOps /\ [][NextOps]_vars

\* ------------------------------------------------------------ registry claims
Quiescent == \A t \in Threads : pc[t] = "idle"

RegisteredKernels == {r[2] : r \in returned}

\* id_to_kernel and kernel_to_id are inverse functions of each other
MutualInverses ==
    /\ \A i \in DOMAIN id_to_kernel :
          /\ id_to_kernel[i] \in DOMAIN kernel_to_id
          /\ kernel_to_id[id_to_kernel[i]] = i
    /\ \A k \in DOMAIN kernel_to_id :
          /\ kernel_to_id[k] \in DOMAIN id_to_kernel
          /\ id_to_kernel[kernel_to_id[k]] = k

\* C1: over all add_kernel calls that have returned, equal kernels got equal
\* handles, distinct kernels got distinct handles, and get_kernel of a returned
\* handle is the kernel that was registered.
C1_RegisterDedupAndResolve ==
    /\ \A r1, r2 \in returned : (r1[2] = r2[2]) <=> (r1[3] = r2[3])
    /\ \A r \in returned : get_kernel(r[3]) = [raised |-> FALSE, value |-> r[2]]

\* C1 witness: two threads registered the same kernel and a third call
\* registered a different one.
C1_Witness ==
    \E r1, r2, r3 \in returned :
        /\ r1[1] # r2[1]
        /\ r1[2] = r2[2]
        /\ r3[2] # r1[2]

\* C2: once every call has finished, each map holds exactly one entry per
\* distinct kernel that was registered (M entries when the whole pool of M
\* kernels was drawn), and all threads got the same handle for a kernel.
C2_ConcurrentRegisterCounts ==
    Quiescent =>
        /\ DictLen(id_to_kernel) = Cardinality(RegisteredKernels)
        /\ DictLen(kernel_to_id) = Cardinality(RegisteredKernels)
        /\ (RegisteredKernels = KernelPool =>
              /\ DictLen(id_to_kernel) = NumKernels
              /\ DictLen(kernel_to_id) = NumKernels)
        /\ \A r1, r2 \in returned : r1[2] = r2[2] => r1[3] = r2[3]

\* C2 witness: all calls are spent and finished, the whole pool was drawn, and
\* two different threads registered the same kernel.
C2_Witness ==
    /\ Quiescent
    /\ calls = MaxCalls
    /\ RegisteredKernels = KernelPool
    /\ \E r1, r2 \in returned : r1[1] # r2[1] /\ r1[2] = r2[2]

\* C3 as stated: in every reachable state the two maps are mutual inverses.
C3_AlwaysMutualInverses == MutualInverses

\* C3 amended: the maps are mutual inverses whenever no add_kernel call stands
\* between its two insertions (so whenever the lock is free); between them
\* id_to_kernel holds exactly one entry more, idx -> kernel of the inserting
\* thread; every kernel_to_id entry always has its id_to_kernel entry.
C3_InversesOutsideInsertion ==
    /\ (\A t \in Threads : pc[t] # "put_kernel") => MutualInverses
    /\ lock = NoThread => MutualInverses
    /\ \A k \in DOMAIN kernel_to_id :
          /\ kernel_to_id[k] \in DOMAIN id_to_kernel
          /\ id_to_kernel[kernel_to_id[k]] = k
    /\ \A t \in Threads : pc[t] = "put_kernel" =>
          /\ idx[t] \in DOMAIN id_to_kernel
          /\ id_to_kernel[idx[t]] = kernel[t]
          /\ kernel[t] \notin DOMAIN kernel_to_id
          /\ \A i \in (DOMAIN id_to_kernel) \ {idx[t]} :
                /\ id_to_kernel[i] \in DOMAIN kernel_to_id
                /\ kernel_to_id[id_to_kernel[i]] = i

\* C3 witness: a lock-free get_kernel resolved a handle whose kernel is not
\* yet in kernel_to_id, while the registering thread still holds the lock.
C3_Witness ==
    \E t \in Threads :
        /\ pc[t] = "put_kernel"
        /\ lock = t
        /\ got = [idx |-> idx[t], raised |-> FALSE, value |-> kernel[t]]
        /\ DOMAIN kernel_to_id # {}

\* ------------------------------------------------------------ analyzer claims
\* Where a node sits in the tree, read off the tree's shape alone: the number
\* of allow-listed read calls and of store calls that enclose it, whether it
\* lies in the condition of a conditional expression, and whether it is the
\* first argument of a store call or the value of an assignment.
IsStoreCall(node) == node.kind = "Call" /\ IsTlCall(node) /\ node.func[2] = "store"

IsReadCall(node) ==
    node.kind = "Call" /\ IsTlCall(node) /\ node.func[2] \in ALLOWED_READ_FNS

TopPlace == [reads |-> 0, stores |-> 0, in_cond |-> FALSE, slot |-> "other"]

\* the place of the i-th child (in ChildNodes order) of a node at place
ChildPlace(node, i, place) ==
    [reads |-> place.reads + (IF IsReadCall(node) THEN 1 ELSE 0),
     stores |-> place.stores + (IF IsStoreCall(node) THEN 1 ELSE 0),
     in_cond |-> place.in_cond \/ (node.kind = "IfExp" /\ i = 1),
     slot |-> IF IsStoreCall(node) /\ i = 2 THEN "store_target"
              ELSE IF node.kind = "Assign" /\ i = 2 THEN "assign_value"
              ELSE "other"]

\* every node of the tree with its place
RECURSIVE Occurrences(_, _)
Occurrences(node, place) ==
    {[node |-> node, place |-> place]}
    \cup UNION {Occurrences(ChildNodes(node)[i], ChildPlace(node, i, place)) :
                   i \in 1..Len(ChildNodes(node))}

AstOccurrences == Occurrences(ast, TopPlace)

\* the places where name n is referenced
RefPlaces(n) == {o.place : o \in {x \in AstOccurrences : x.node = NameNode(n)}}

\* the places of the store calls
StorePlaces == {o.place : o \in {x \in AstOccurrences : IsStoreCall(x.node)}}

Tracked == Elems(tensors)

Finished == apc \in {"returned", "raised"}

\* C6: when the pass returns for a kernel that assigns tracked argument n to a
\* variable (n is the value of an assignment statement), n has
\* used_in_unknown set and is in the returned list.
C6_AssignedIsOpaque ==
    apc = "returned" =>
        \A n \in Tracked :
            (\E pl \in RefPlaces(n) : pl.slot = "assign_value") =>
                /\ infos[n].used_in_unknown
                /\ n \in Elems(mutated_names)

\* C6 witness: the first statement assigns a tracked argument to a local, a
\* second statement follows, and the list was returned.
C6_Witness ==
    /\ apc = "returned"
    /\ Len(ast.kids) = 2
    /\ ast.kids[1].kind = "Assign"
    /\ ast.kids[1].kids[1] = NameNode("a")
    /\ ast.kids[1].kids[2] = NameNode("in_ptr")
    /\ "in_ptr" \in Tracked
    /\ infos["in_ptr"].used_in_unknown

\* C7: when the pass returns for a kernel in which tracked argument n is the
\* first argument of a tl.store call, n has mutated set (and is in the list);
\* so has every n referenced anywhere in a store's arguments outside a read
\* call.
C7_StoreTargetIsMutated ==
    apc = "returned" =>
        \A n \in Tracked :
            /\ (\E pl \in RefPlaces(n) : pl.slot = "store_target") =>
                  /\ infos[n].mutated
                  /\ n \in Elems(mutated_names)
            /\ (\E pl \in RefPlaces(n) : pl.stores > 0 /\ pl.reads = 0) =>
                  infos[n].mutated

\* C7 witness: the only reference to a tracked argument is as the target of a
\* store, and the pass returned with mutated set and used_in_unknown clear.
C7_Witness ==
    /\ apc = "returned"
    /\ "out_ptr" \in Tracked
    /\ RefPlaces("out_ptr") # {}
    /\ \A pl \in RefPlaces("out_ptr") : pl.slot = "store_target"
    /\ infos["out_ptr"].mutated
    /\ ~infos["out_ptr"].used_in_unknown

\* C8: a tracked argument all of whose references lie inside allow-listed read
\* calls ends with mutated and used_in_unknown both clear, and is not in the
\* returned list; also when the read call is an argument of a store.
C8_ReadOnlyIsUnflagged ==
    Finished =>
        \A n \in Tracked :
            (\A pl \in RefPlaces(n) : pl.reads > 0) =>
                /\ ~infos[n].mutated
                /\ ~infos[n].used_in_unknown
                /\ n \notin Elems(mutated_names)

\* C8 witness: a tracked argument is referenced, only inside read calls, one
\* of them an argument of a store whose target is flagged; the pass returned.
C8_Witness ==
    /\ apc = "returned"
    /\ "in_ptr" \in Tracked
    /\ \A pl \in RefPlaces("in_ptr") : pl.reads > 0
    /\ \E pl \in RefPlaces("in_ptr") : pl.stores > 0
    /\ mutated_names = <<"out_ptr">>

\* C9 as stated: every kernel with a store call inside the condition of a
\* conditional expression makes the pass raise.
C9_StoreInConditionRaises ==
    (Finished /\ \E pl \in StorePlaces : pl.in_cond) => apc = "raised"

\* C9 amended: the pass raises when the store in a condition is (with its
\* conditional) inside an allow-listed read call or inside a store's
\* arguments; when no store of the kernel is inside a read call or a store,
\* a store in a condition does not make the pass raise.
C9_NestedStoreInConditionRaises ==
    Finished =>
        /\ (\E pl \in StorePlaces : pl.in_cond /\ (pl.reads > 0 \/ pl.stores > 0))
              => apc = "raised"
        /\ ((\E pl \in StorePlaces : pl.in_cond)
            /\ (\A pl \in StorePlaces : pl.reads = 0 /\ pl.stores = 0))
              => apc = "returned"

\* C9 witness: tl.load(x if tl.store(b) else y) was rejected.
C9_Witness ==
    /\ apc = "raised"
    /\ Len(ast.kids) = 1
    /\ ast.kids[1].kind = "Expr"
    /\ IsReadCall(ast.kids[1].kids[1])
    /\ Len(ast.kids[1].kids[1].kids) = 1
    /\ ast.kids[1].kids[1].kids[1].kind = "IfExp"
    /\ IsStoreCall(ast.kids[1].kids[1].kids[1].kids[1])

\* C10: the pass raises exactly when some store call of the kernel is nested
\* inside an allow-listed read call (read_depth > 0 when it is reached) or
\* inside another store's arguments (in_store set when it is reached); a
\* kernel whose stores are all reached with depth 0 and the flag clear returns.
C10_RaisesIffStoreNested ==
    Finished =>
        (apc = "raised" <=> \E pl \in StorePlaces : pl.reads > 0 \/ pl.stores > 0)

\* C10 witness: a store directly inside another store's arguments, inside no
\* read call, was rejected.
C10_Witness ==
    /\ apc = "raised"
    /\ \E pl \in StorePlaces : pl.stores > 0
    /\ \A pl \in StorePlaces : pl.reads = 0


\* C16: when the pass completes, a tracked name is in the list
\* filter_non_mutated returns exactly when some reference to it lies outside
\* every allow-listed read call, in a store's arguments or anywhere else; the
\* list holds input names only, in the order of the input.
C16_ReportedIffReferencedOutsideReads ==
    apc = "returned" =>
        /\ \A n \in Tracked :
              n \in Elems(mutated_names) <=> (\E pl \in RefPlaces(n) : pl.reads = 0)
        /\ mutated_names = SelectSeq(tensors, LAMBDA n : n \in Elems(mutated_names))

\* the pass returned for two tracked names in the order out_ptr, in_ptr: both
\* are referenced, in_ptr outside any store and any read call, out_ptr inside
\* read calls only (one of them in a store's arguments); only in_ptr is listed
C16_Witness ==
    /\ apc = "returned"
    /\ tensors = <<"out_ptr", "in_ptr">>
    /\ \E pl \in RefPlaces("in_ptr") : pl.reads = 0 /\ pl.stores = 0
    /\ RefPlaces("out_ptr") # {}
    /\ \A pl \in RefPlaces("out_ptr") : pl.reads > 0
    /\ \E pl \in RefPlaces("out_ptr") : pl.stores > 0
    /\ mutated_names = <<"in_ptr">>

\* ------------------------------------------------ functional form and bridge
\* the parameters the called kernel writes, and where each takes its data from
WrittenParams == {KernelTable[kernel_idx + 1].copies[i][1] :
                     i \in 1..Len(KernelTable[kernel_idx + 1].copies)}

SourceOf(key) ==
    LET i == CHOOSE j \in 1..Len(KernelTable[kernel_idx + 1].copies) :
                 KernelTable[kernel_idx + 1].copies[j][1] = key
    IN KernelTable[kernel_idx + 1].copies[i][2]

\* what the argument named key holds once the kernel has run on the call's data
PostKernelValue(key) ==
    IF key \notin WrittenParams THEN heap0[kwargs[key].storage]
    ELSE IF SourceOf(key) = "" THEN FillData
    ELSE heap0[kwargs[SourceOf(key)].storage]

OriginalsUnchanged == \A s \in DOMAIN heap0 : heap[s] = heap0[s]

\* the result maps exactly the names of tensors_to_clone to new tensors, clones
\* that did not exist before the call, holding the post-kernel values
ReturnsTheClones ==
    /\ DOMAIN outputs = Elems(tensors_to_clone)
    /\ \A key \in DOMAIN outputs :
          /\ outputs[key].is_tensor
          /\ outputs[key].storage \notin DOMAIN heap0
          /\ heap[outputs[key].storage] = PostKernelValue(key)
    /\ Len(launched) = 1

FunctionalReturned == mode = "functional_dense" /\ opc = "returned"

\* C4 as stated: for every bundle and every tensors_to_clone list, the
\* functional form returns exactly the cloned entries holding the post-kernel
\* values and leaves every buffer of the caller's bundle unchanged.
C4_FunctionalNeverTouchesOriginals ==
    FunctionalReturned => ReturnsTheClones /\ OriginalsUnchanged

\* C4 as the code has it: the functional form always returns exactly the
\* cloned entries, keyed by name; when tensors_to_clone names every argument the
\* kernel writes, they hold the post-kernel values and every buffer of the
\* caller's bundle is unchanged. The kernel runs on the working copy, so an
\* argument it writes that was not cloned is the caller's own buffer.
C4_FunctionalNonDestructiveOnClonedWrites ==
    FunctionalReturned =>
        /\ DOMAIN outputs = Elems(tensors_to_clone)
        /\ \A key \in DOMAIN outputs : outputs[key].storage \notin DOMAIN heap0
        /\ (WrittenParams \subseteq Elems(tensors_to_clone)
               => ReturnsTheClones /\ OriginalsUnchanged)

\* the copy kernel with tensors_to_clone = [out], out = [0,0,0], in = [1,2,3]:
\* the result is {out: [1,2,3]} and the caller's out is still [0,0,0]
C4_Witness ==
    /\ FunctionalReturned
    /\ kernel_idx = 0
    /\ tensors_to_clone = <<"out_ptr">>
    /\ heap0[kwargs["out_ptr"].storage] = <<0, 0, 0>>
    /\ heap0[kwargs["in_ptr"].storage] = <<1, 2, 3>>
    /\ DOMAIN outputs = {"out_ptr"}
    /\ heap[outputs["out_ptr"].storage] = <<1, 2, 3>>
    /\ heap[kwargs["out_ptr"].storage] = <<0, 0, 0>>

BridgeReturned == mode = "functionalize" /\ opc = "returned"

\* what the caller sees through the tracked argument named key
TrackedValue(key) == heap[wrappers[key].value]

StoredHandles ==
    {r[3] : r \in returned}
        \cup {idx[t] : t \in {u \in Threads : pc[u] \in {"put_kernel", "return"}}}

NeverIssued(h) == h \notin StoredHandles

\* C11: a get_kernel call changes neither map, and when its handle was never
\* issued (no add_kernel call has stored it) it raises and returns no kernel.
C11_UnknownHandleRaises ==
    [][got' # got =>
          /\ id_to_kernel' = id_to_kernel
          /\ kernel_to_id' = kernel_to_id
          /\ (NeverIssued(got'.idx) => got'.raised /\ got'.value = NoKernel)]_vars

\* get_kernel raised on a handle no add_kernel has issued, with other
\* kernels registered
C11_Witness ==
    /\ got.idx \in Handles
    /\ NeverIssued(got.idx)
    /\ got.raised
    /\ got.value = NoKernel
    /\ id_to_kernel # EmptyDict
    /\ kernel_to_id # EmptyDict

\* C12 as stated: over add_kernel, get_kernel and reset_table calls, reset_table
\* never overlapping another call, no two add_kernel returns give one handle
\* to different kernels.
C12_HandleNeverChangesTarget ==
    ~raced => \A r1, r2 \in returned : r1[3] = r2[3] => r1[2] = r2[2]

\* C12 as the code has it: as long as reset_table does not overlap another
\* call, a handle keeps its target until the next reset_table: the add_kernel
\* returns between two resets never give one handle to different kernels, and
\* get_kernel of a handle issued since the last reset gives its kernel.
C12_HandleStableUntilReset ==
    ~raced =>
        /\ \A r1, r2 \in issued :
              (r1[1] = r2[1] /\ r1[3] = r2[3]) => r1[2] = r2[2]
        /\ \A r \in issued :
              r[1] = resets => get_kernel(r[3]) = [raised |-> FALSE, value |-> r[2]]

\* a handle issued before a reset_table was issued again after it, to another
\* kernel, and resolves to that kernel
C12_Witness ==
    /\ ~raced
    /\ Quiescent
    /\ resets = 1
    /\ \E r0, r1 \in issued :
          /\ r0[1] = 0
          /\ r1[1] = 1
          /\ r0[3] = r1[3]
          /\ r0[2] # r1[2]
          /\ got = [idx |-> r1[3], raised |-> FALSE, value |-> r1[2]]

\* the add_kernel returns since the last reset_table
IssuedNow == {r \in issued : r[1] = resets}

\* C20: reset_table takes no lock: an idle thread can start it whoever holds
\* the lock, and the resetting thread never holds it. When reset_table has not
\* overlapped another call, right after it both maps are empty and every
\* handle is unknown, and the handles issued after it start again at 0.
C20_ResetTableTakesNoLock ==
    /\ \A t \in Threads :
          /\ (pc[t] = "idle" /\ calls < MaxCalls) => ENABLED ResetIdToKernel(t)
          /\ pc[t] = "reset_kernel_to_id" => (lock # t /\ ENABLED ResetKernelToId(t))
    /\ (~raced /\ resets > 0 /\ Quiescent /\ IssuedNow = {}) =>
          /\ id_to_kernel = EmptyDict
          /\ kernel_to_id = EmptyDict
          /\ \A h \in Handles : get_kernel(h).raised
    /\ (~raced /\ resets > 0) =>
          {r[3] : r \in IssuedNow} = 0..(Cardinality({r[3] : r \in IssuedNow}) - 1)

\* one add_kernel and one reset_table have run, interleaved, and kernel_to_id
\* maps a kernel to a handle that id_to_kernel does not hold
C20_Witness ==
    /\ Quiescent
    /\ calls = 2
    /\ resets = 1
    /\ raced
    /\ Cardinality(returned) = 1
    /\ \E k \in DOMAIN kernel_to_id : kernel_to_id[k] \notin DOMAIN id_to_kernel


\* ------------------------------------------------------- operator call claims
\* the steps that splice a result into a tracked argument
SpliceOps == {"replace", "mark_hidden", "commit_update", "sync"}

SpliceEvents == SelectSeq(events, LAMBDA e : e[1] \in SpliceOps)

\* every tracked argument is as it was when the operator was called
WrappersUntouched ==
    \A key \in DOMAIN wrappers : wrappers[key] = NewWrapper(kwargs[key].storage)

\* the side table as it was when the operator was called
RegistryUntouched ==
    /\ id_to_kernel = [h \in 0..(Len(KernelTable) - 1) |-> h + 1]
    /\ kernel_to_id = [k \in 1..Len(KernelTable) |-> k - 1]

KernelRaised == \E i \in 1..Len(launched) : launched[i].ended # "none"

\* C14: when the external kernel has raised, the call (of the mutating form,
\* of the functional form, through the bridge or through the proxy mode) has
\* raised that same error, the kernel was launched once, the launch is the last
\* step taken, no mapping was returned, no tracked argument was touched and no
\* node was created.
C14_KernelErrorPropagates ==
    KernelRaised =>
        /\ opc = "raised"
        /\ err = "KernelError"
        /\ Len(launched) = 1
        /\ events[Len(events)] = <<"launch", "">>
        /\ outputs = <<>>
        /\ SpliceEvents = <<>>
        /\ WrappersUntouched
        /\ graph = <<>>

\* the kernel raised after writing the clone the bridge's functional call made
C14_Witness ==
    /\ mode = "functionalize"
    /\ opc = "raised"
    /\ err = "KernelError"
    /\ launched[1].ended = "after"
    /\ tensors_to_clone = <<"out_ptr">>
    /\ <<"clone", "out_ptr">> \in Elems(events)

\* C15: in fake tensor mode the mutating form, called once or several times
\* with the same arguments, whatever they are, never raises, launches no
\* kernel, returns no value and leaves the buffers, the side table and the
\* graph as they were.
C15_FakeModeIsNoOp ==
    mode = "mutation_fake" =>
        /\ opc \in {"called", "returned"}
        /\ err = "none"
        /\ launched = <<>>
        /\ outputs = <<>>
        /\ heap = heap0
        /\ RegistryUntouched
        /\ graph = <<>>

\* the handler has returned twice, for a handle that is not registered
C15_Witness ==
    /\ mode = "mutation_fake"
    /\ opc = "returned"
    /\ Len(events) >= 2
    /\ get_kernel(kernel_idx).raised

\* the position of the first event with operation op, 0 when there is none
FirstOf(op) ==
    IF \E i \in 1..Len(events) : events[i][1] = op
    THEN CHOOSE i \in 1..Len(events) :
            events[i][1] = op /\ \A j \in 1..(i - 1) : events[j][1] # op
    ELSE 0

\* the order of the five splice steps of one item
SpliceOrder == <<"replace", "mark_hidden", "commit_update", "sync", "mark_hidden">>

\* C17: in the bridge the splice steps come in rounds of replace, mark hidden,
\* commit, sync, mark hidden, one round per returned key in order, all after
\* the functional form has returned, which is after the launch, which is after
\* the clones; a replacement (the one sync makes included) is visible to
\* autograd only until the marking that follows it, before the next item and
\* before the return.
C17_SpliceStepsInOrder ==
    mode = "functionalize" =>
        /\ \A m \in 1..Len(SpliceEvents) :
              /\ SpliceEvents[m][1] = SpliceOrder[((m - 1) % 5) + 1]
              /\ SpliceEvents[m][2] = OutputKeys[((m - 1) \div 5) + 1]
        /\ SpliceEvents # <<>> =>
              /\ FirstOf("functional_returned") > 0
              /\ FirstOf("functional_returned") < FirstOf("replace")
        /\ \A i, j \in 1..Len(events) :
              /\ (events[i][1] = "clone" /\ events[j][1] = "launch") => i < j
              /\ (events[i][1] = "launch" /\ events[j][1] = "functional_returned") => i < j
        /\ opc = "returned" => Len(SpliceEvents) = 5 * Len(OutputKeys)
        /\ \A key \in DOMAIN wrappers :
              wrappers[key].exposed =>
                  /\ opc \in {"mark_hidden", "mark_hidden_again"}
                  /\ key = OutputKeys[pos]

\* the bridge has returned after two rounds, for in_ptr and then out_ptr
C17_Witness ==
    /\ BridgeReturned
    /\ OutputKeys = <<"in_ptr", "out_ptr">>
    /\ Len(SpliceEvents) = 10
    /\ SpliceEvents[5] = <<"mark_hidden", "in_ptr">>
    /\ SpliceEvents[6] = <<"replace", "out_ptr">>


\* positions of the events with operation op
EventsOf(op) == {i \in 1..Len(events) : events[i][1] = op}

\* the steps of the operator invoked by the proxy handler
NestedOps == {"clone", "launch", "functional_returned"}

\* what holds of a proxy handler's call at any moment: the operator is invoked
\* at most once and never while recording; its steps lie between the call and
\* the re-enabling; a node is created only while recording, after the
\* re-enabling that follows the call, and at most one; on the direct path no
\* node is created.
ProxyCallInOrder ==
    /\ Cardinality(EventsOf("call")) <= 1
    /\ Len(launched) <= 1
    /\ \A i \in EventsOf("call") : events[i][2] \in {"suspended", "direct"}
    /\ \A i \in 1..Len(events) :
          events[i][1] \in NestedOps =>
              /\ FirstOf("call") \in 1..(i - 1)
              /\ FirstOf("enable_tracing") \in {0} \cup ((i + 1)..Len(events))
    /\ \A i \in EventsOf("create_proxy") :
          /\ events[i][2] = "recording"
          /\ events[1] = <<"disable_tracing", "">>
          /\ events[2] = <<"call", "suspended">>
          /\ events[i - 1] = <<"enable_tracing", "">>
    /\ Len(graph) = Cardinality(EventsOf("create_proxy"))
    /\ Len(graph) <= 1
    /\ \A n \in 1..Len(graph) : graph[n].target = OperatorOf(mode)
    /\ (events # <<>> /\ events[1] = <<"call", "direct">>) => graph = <<>>
    /\ opc = "returned" =>
          /\ Cardinality(EventsOf("call")) = 1
          /\ events[1] = <<"disable_tracing", "">> => (Len(graph) = 1 /\ enable_tracing)

\* the first step of a proxy handler: with recording on it suspends recording
\* and nothing else; with recording off it invokes the operator with the
\* given kernel_idx and grid and creates no node
ProxyFirstStep ==
    opc = "called" =>
        IF enable_tracing
        THEN /\ events' = << <<"disable_tracing", "">> >>
             /\ ~enable_tracing'
             /\ launched' = <<>>
             /\ graph' = <<>>
        ELSE /\ events'[1] = <<"call", "direct">>
             /\ ~enable_tracing'
             /\ graph' = <<>>
             /\ opc' \in {"returned", "raised"}
             /\ \A n \in 1..Len(launched') :
                   /\ launched'[n].kernel = id_to_kernel[kernel_idx]
                   /\ launched'[n].grid_fn = GridFn(grid)

\* C18: a proxy handler of either operator, when recording is on, invokes the
\* operator once with recording suspended throughout and creates exactly one
\* node after the invocation has returned and recording is on again; when
\* recording is off it invokes the operator directly with the given handle,
\* grid and arguments and creates no node.
C18_RecordOnceAfterSuspendedRun ==
    [][(mode \in ProxyModes) => (ProxyFirstStep /\ ProxyCallInOrder')]_vars

\* the functional form was recorded: one suspended invocation that launched
\* the kernel and returned a clone, then one node
C18_Witness ==
    /\ mode = "functional_proxy"
    /\ opc = "returned"
    /\ events[1] = <<"disable_tracing", "">>
    /\ events[Len(events)] = <<"create_proxy", "recording">>
    /\ Len(launched) = 1
    /\ Len(graph) = 1
    /\ DOMAIN outputs = {"out_ptr"}

\* the two tensor arguments are views of one storage
Aliased == kwargs["in_ptr"].storage = kwargs["out_ptr"].storage

\* C19: when the bridge returns from a call whose two tensor arguments are
\* views of one storage and only out_ptr was reported mutated, the tracked
\* out_ptr stands for a clone holding the post-kernel value while the tracked
\* in_ptr still stands for the shared storage, which holds its pre-kernel data:
\* the two differ whenever the kernel changed the data.
C19_AliasedArgumentsDiverge ==
    (BridgeReturned /\ Aliased /\ tensors_to_clone = <<"out_ptr">>) =>
        /\ wrappers["out_ptr"].value \notin DOMAIN heap0
        /\ TrackedValue("out_ptr") = PostKernelValue("out_ptr")
        /\ wrappers["in_ptr"].value = kwargs["in_ptr"].storage
        /\ TrackedValue("in_ptr") = heap0[kwargs["in_ptr"].storage]
        /\ (PostKernelValue("out_ptr") # heap0[kwargs["out_ptr"].storage]
               => TrackedValue("in_ptr") # TrackedValue("out_ptr"))

\* the bridge returned from a kernel that wrote [1,2,3] through out_ptr, a view
\* of the storage in_ptr views: out_ptr reads [1,2,3], in_ptr still [0,0,0]
C19_Witness ==
    /\ BridgeReturned
    /\ Aliased
    /\ heap0[kwargs["in_ptr"].storage] = <<0, 0, 0>>
    /\ TrackedValue("out_ptr") = <<1, 2, 3>>
    /\ TrackedValue("in_ptr") = <<0, 0, 0>>

====
